---- MODULE Spec2Model ----
(***************************************************************************)
(* Model of tp/qt/mvc.py: the Model class that binds named UI properties   *)
(* to Qt widgets and keeps both sides synchronised.                        *)
(*                                                                         *)
(* The interpreter is single threaded and every method runs to completion, *)
(* so each public method is one action.  A method's nested calls (widget   *)
(* setters, the changed-signal they emit, the save_properties slot the     *)
(* signal is connected to, the listeners) are computed inside the action   *)
(* and written, in call order, to `trace`.  Between two calls control is   *)
(* back in the Qt event loop, where the record of the last call is         *)
(* dropped.                                                                *)
(***************************************************************************)
EXTENDS Integers, Sequences, FiniteSets, TLC

VARIABLES
    widgets,        \* Model._widgets: the tracked widgets, in insertion order
    properties,     \* Model._properties: name -> [value, default]
    listeners,      \* Model._listeners: name -> sequence of listeners
    show_warnings,  \* Model._show_warnings
    block_save,     \* Model._block_save
    prop,           \* per widget: its "prop" tag (widget.property("prop"))
    wtype,          \* per widget: type(widget), fixed at construction
    wvalue,         \* per supported widget: what its getter returns
    initial,        \* the property list Model.__init__ hands to setup_properties
    op,             \* the last method called, with its arguments
    result,         \* what that call returned or raised
    trace           \* the nested calls of that call, in order

vars == <<widgets, properties, listeners, show_warnings, block_save,
          prop, wtype, wvalue, initial, op, result, trace>>

----------------------------------------------------------------------------
(* Bounds of the model *)

\* widget values range over 0..MaxValue
MaxValue == 1
\* at most this many listen() calls are made
MaxListeners == 2
\* the property lists given to setup_properties have at most this many records
MaxProps == 2

----------------------------------------------------------------------------
(* The universe: widgets, their types, names and values *)

\* Python's None, as a property value (value and default are None by default)
None == -1
\* widget.property("prop") of a widget that was never tagged
NoProp == "None"

Widget == {"w1", "w2"}
\* the str "" that a QLineEdit holds, kept apart from None and the ints
EmptyText == -2

\* the widget types of the model: two the table lists, one it lacks
WidgetType == {"QProgressBar", "QLineEdit", "QSlider"}

PropName == {"p", "q"}
WidgetValue == 0..MaxValue
PropValue == WidgetValue \cup {None}
\* what a QLineEdit can hold
TextValue == {EmptyText}

\* SUPPORT_WIDGET_TYPES, restricted to the types of the widgets above
SUPPORT_WIDGET_TYPES ==
    [t \in {"QProgressBar", "QLineEdit"} |->
        IF t = "QProgressBar"
        THEN [save_signal |-> "valueChanged",
              getsets |-> <<[getter |-> "value", setter |-> "setValue"]>>]
        ELSE [save_signal |-> "textChanged",
              getsets |-> <<[getter |-> "text", setter |-> "setText"]>>]]

\* SUPPORT_WIDGET_TYPES.get(type(widget)) is not None
Supported(w) == wtype[w] \in DOMAIN SUPPORT_WIDGET_TYPES

\* QProgressBar.setValue(int), QLineEdit.setText(str): any other argument
\* raises TypeError
Accepts(w, v) ==
    IF wtype[w] = "QLineEdit" THEN v \in TextValue ELSE v \in WidgetValue

\* what the getter of a widget returns before anything was set
InitialValue(w) == IF wtype[w] = "QLineEdit" THEN EmptyText ELSE 0

\* the values update_property is called with: None, the ints, and a str
\* where a widget of the window takes one (elsewhere a str is rejected by
\* every setter, as None is)
InputValue == PropValue \cup {v \in TextValue : \E w \in Widget : Accepts(w, v)}

----------------------------------------------------------------------------
(* Sequence helpers *)

Range(s) == {s[i] : i \in 1..Len(s)}

\* [widget for widget in self._widgets]
property_widgets == widgets

\* widget in widgets
Tracked(w) == w \in Range(property_widgets)

RECURSIVE SelectSeqBy(_, _)
\* the subsequence of ws of the widgets tagged with name
SelectSeqBy(ws, name) ==
    IF ws = <<>> THEN <<>>
    ELSE LET w == Head(ws)
             rest == SelectSeqBy(Tail(ws), name)
         IN IF prop[w] = NoProp \/ prop[w] # name THEN rest ELSE <<w>> \o rest

widgets_linked_to_property(name) == SelectSeqBy(widgets, name)

----------------------------------------------------------------------------
(* setup_properties *)

\* the UiProperty records (the type field is never read by the Model)
UiProperty == [name : PropName, value : PropValue, default : PropValue]

RECURSIVE SetupLoop(_, _)
SetupLoop(tool_properties, props) ==
    IF props = <<>> THEN tool_properties
    ELSE LET p == Head(props)
             rec == [value |-> p.value,
                     default |-> IF p.default = None THEN p.value ELSE p.default]
             names == DOMAIN tool_properties \cup {p.name}
         IN SetupLoop([n \in names |-> IF n = p.name THEN rec ELSE tool_properties[n]],
                      Tail(props))

\* setup_properties in which the first record of a name wins
setup_properties_first_wins(props) ==
    SetupLoop(<<>>, [i \in 1..Len(props) |-> props[Len(props) + 1 - i]])

setup_properties(props) == SetupLoop(<<>>, props)

\* every property list of at most MaxProps records
SetupLists == UNION {[1..n -> UiProperty] : n \in 0..MaxProps}

Prop(name, value, default) == [name |-> name, value |-> value, default |-> default]

\* the lists initialize_properties returns in the model: with and without an
\* explicit default, with a value and without, "q" registered and not
PropertyLists ==
    {<<Prop("p", None, None)>>,
     <<Prop("p", 0, MaxValue), Prop("q", 0, None)>>}

----------------------------------------------------------------------------
(* The state a method call works on, and the record of its nested calls *)

\* props, wv, bs: the properties, widget values and _block_save as the call
\* has changed them so far; tr: the nested calls so far; exc: the exception
\* that is propagating, "" when none is
CallState ==
    [props |-> properties, wv |-> wvalue, bs |-> block_save, tr |-> <<>>, exc |-> ""]

Event(ev, w, name, l, v, noop) ==
    [ev |-> ev, w |-> w, name |-> name, l |-> l, v |-> v, noop |-> noop]

\* self._listeners.get(name, [])
ListenersOf(name) == IF name \in DOMAIN listeners THEN listeners[name] ELSE <<>>

\* for listener in self._listeners.get(name, []): listener(v)
Notify(name, v) ==
    LET ls == ListenersOf(name)
    IN [i \in 1..Len(ls) |-> Event("listener", "", name, ls[i], v, FALSE)]

----------------------------------------------------------------------------
(* save_properties *)

\* widget_values(widget): {} for an unsupported type, else {"value": getter()}
\* (the widgets of the model carry no "extraProperties" tag)
widget_values(s, w) == IF Supported(w) THEN {s.wv[w]} ELSE {}

RECURSIVE SaveLoop(_, _)
\* the loop of save_properties over the widgets ws
SaveLoop(s, ws) ==
    IF ws = <<>> THEN s
    ELSE LET w == Head(ws)
             property_name == prop[w]
             vals == widget_values(s, w)
         IN IF vals = {} THEN SaveLoop(s, Tail(ws))
            ELSE IF property_name \notin DOMAIN s.props
                 THEN [s EXCEPT !.exc = "KeyError"]
                 ELSE LET v == CHOOSE x \in vals : TRUE
                      IN SaveLoop([s EXCEPT !.props[property_name].value = v,
                                            !.tr = Append(@, Event("write", w, property_name, 0, v, FALSE))
                                                       \o Notify(property_name, v)],
                                  Tail(ws))

\* save_properties without its _block_save guard
save_properties_unguarded(s) == SaveLoop(s, property_widgets)

save_properties(s) == IF s.bs THEN s ELSE SaveLoop(s, property_widgets)

\* widget w emits its save signal: the connected slot save_properties runs
\* synchronously.  The trace gets a "save" event that tells whether the slot
\* did nothing, followed by the listener calls the slot made.
Emit(s, w) ==
    LET t == save_properties([s EXCEPT !.tr = <<>>])
        noop == t.props = s.props /\ t.tr = <<>> /\ t.exc = s.exc
    IN [t EXCEPT !.tr = s.tr \o <<Event("save", w, prop[w], 0, None, noop)>> \o t.tr]

----------------------------------------------------------------------------
(* update_widget and the two update batches *)

update_widget(s, w) ==
    IF ~Supported(w) THEN s
    ELSE LET widget_name == prop[w]
         IN IF widget_name \notin DOMAIN s.props
            THEN [s EXCEPT !.exc = "KeyError"]
            ELSE LET value == s.props[widget_name].value
                 IN IF ~Accepts(w, value)
                    THEN [s EXCEPT !.exc = "TypeError",
                                   !.tr = Append(@, Event("rejected", w, widget_name, 0, value, FALSE))]
                    ELSE LET s1 == [s EXCEPT !.wv[w] = value,
                                             !.tr = Append(@, Event("setter", w, widget_name, 0, value, FALSE))]
                         \* QProgressBar.setValue emits valueChanged when the
                         \* value changes; link_property connected it
                         IN IF value # s.wv[w] /\ Tracked(w) THEN Emit(s1, w) ELSE s1

RECURSIVE UpdateLoop(_, _)
\* for widget in ws: self.update_widget(widget)
\* (the second loop, widget.blockSignals(False), changes nothing here: no
\* widget of the model has its signals blocked)
UpdateLoop(s, ws) ==
    IF ws = <<>> \/ s.exc # "" THEN s
    ELSE UpdateLoop(update_widget(s, Head(ws)), Tail(ws))

\* self._block_save = False at the end of a batch, noted in the trace
Unblock(s) ==
    [s EXCEPT !.bs = FALSE, !.tr = Append(@, Event("unblock", "", "", 0, None, FALSE))]

\* update_widget_from_property that forgets to raise _block_save
update_widget_from_property_unblocked(s, name) ==
    LET s1 == UpdateLoop(s, widgets_linked_to_property(name))
    IN IF s1.exc # "" THEN s1 ELSE Unblock(s1)

update_widget_from_property(s, name) ==
    LET s1 == UpdateLoop([s EXCEPT !.bs = TRUE], widgets_linked_to_property(name))
    IN IF s1.exc # "" THEN s1 ELSE Unblock(s1)

update_widgets_from_properties(s) ==
    LET s1 == UpdateLoop([s EXCEPT !.bs = TRUE], property_widgets)
    IN Unblock(s1)

\* update_property without the "name not in self.properties" test: the
\* subscript at line 450 raises
update_property_unchecked(s, name, value) ==
    IF name \notin DOMAIN s.props THEN [s EXCEPT !.exc = "KeyError"]
    ELSE LET s1 == update_widget_from_property([s EXCEPT !.props[name].value = value], name)
         IN IF s1.exc # "" THEN s1
            ELSE [s1 EXCEPT !.tr = @ \o Notify(name, value)]

\* update_property that calls the listeners in a finally clause
update_property_notify_always(s, name, value) ==
    IF name \notin DOMAIN s.props THEN s
    ELSE LET s1 == update_widget_from_property([s EXCEPT !.props[name].value = value], name)
         IN [s1 EXCEPT !.tr = @ \o Notify(name, value)]

\* update_property that stores the value and notifies, without the refresh
update_property_no_refresh(s, name, value) ==
    IF name \notin DOMAIN s.props THEN s
    ELSE [s EXCEPT !.props[name].value = value, !.tr = @ \o Notify(name, value)]

update_property(s, name, value) ==
    IF name \notin DOMAIN s.props THEN s
    ELSE LET s1 == update_widget_from_property([s EXCEPT !.props[name].value = value], name)
         IN IF s1.exc # "" THEN s1
            ELSE [s1 EXCEPT !.tr = @ \o Notify(name, value)]

\* reset_properties with the assignment of line 296 turned round
reset_properties_into_default(s, update_widgets) ==
    LET s1 == [s EXCEPT !.props = [n \in DOMAIN s.props |->
                                      [s.props[n] EXCEPT !.default = s.props[n].value]]]
    IN IF update_widgets THEN update_widgets_from_properties(s1) ELSE s1

\* reset_properties that ignores update_widgets
reset_properties_no_push(s, update_widgets) ==
    [s EXCEPT !.props = [n \in DOMAIN s.props |->
                            [s.props[n] EXCEPT !.value = s.props[n].default]]]

reset_properties(s, update_widgets) ==
    LET s1 == [s EXCEPT !.props = [n \in DOMAIN s.props |->
                                      [s.props[n] EXCEPT !.value = s.props[n].default]]]
    IN IF update_widgets THEN update_widgets_from_properties(s1) ELSE s1

----------------------------------------------------------------------------
(* link_property and listen *)

\* link_property without the "widget in widgets" test
link_property_no_dedupe(w, name) ==
    IF ~Supported(w) /\ show_warnings
    THEN [ret |-> "False", widgets |-> widgets, prop |-> prop]
    ELSE [ret |-> "True",
          widgets |-> Append(widgets, w),
          prop |-> [prop EXCEPT ![w] = name]]

\* link_property that tags the widget before it tests "widget in widgets"
link_property_retag(w, name) ==
    IF Tracked(w)
    THEN [ret |-> "False", widgets |-> widgets, prop |-> [prop EXCEPT ![w] = name]]
    ELSE IF ~Supported(w) /\ show_warnings
         THEN [ret |-> "False", widgets |-> widgets, prop |-> prop]
         ELSE [ret |-> "True",
               widgets |-> Append(widgets, w),
               prop |-> [prop EXCEPT ![w] = name]]

\* link_property that sets the "prop" tag before it looks at the widget type
link_property_tag_first(w, name) ==
    IF Tracked(w)
    THEN [ret |-> "False", widgets |-> widgets, prop |-> prop]
    ELSE IF ~Supported(w) /\ show_warnings
         THEN [ret |-> "False", widgets |-> widgets, prop |-> [prop EXCEPT ![w] = name]]
         ELSE [ret |-> "True",
               widgets |-> Append(widgets, w),
               prop |-> [prop EXCEPT ![w] = name]]

\* link_property that inserts the widget at the head of the registry
link_property_prepend(w, name) ==
    IF Tracked(w)
    THEN [ret |-> "False", widgets |-> widgets, prop |-> prop]
    ELSE IF ~Supported(w) /\ show_warnings
         THEN [ret |-> "False", widgets |-> widgets, prop |-> prop]
         ELSE [ret |-> "True",
               widgets |-> <<w>> \o widgets,
               prop |-> [prop EXCEPT ![w] = name]]

\* what link_property(w, name) returns and leaves in the registry and tags
link_property(w, name) ==
    IF Tracked(w)
    THEN [ret |-> "False", widgets |-> widgets, prop |-> prop]
    ELSE LET modified == Supported(w)
         IN IF ~modified /\ show_warnings
            THEN [ret |-> "False", widgets |-> widgets, prop |-> prop]
            ELSE [ret |-> "True",
                  widgets |-> Append(widgets, w),
                  prop |-> [prop EXCEPT ![w] = name]]

----------------------------------------------------------------------------
(* iterate_linkable_properties, over the window the model is bound to *)

\* The window: its attribute "bar" holds w1, which is also its first child;
\* its second child is a panel whose attribute "slider" holds w2, the only
\* child of the panel.  The widgets have no attributes and no children.
TreeNode == {"win", "panel"} \cup Widget

\* widget.__dict__, in order: attribute name and the widget it holds
Attrs(node) ==
    CASE node = "win" -> <<[attr |-> "bar", w |-> "w1"]>>
      [] node = "panel" -> <<[attr |-> "slider", w |-> "w2"]>>
      [] OTHER -> <<>>

\* widget.children(), in order
Children(node) ==
    CASE node = "win" -> <<"w1", "panel">>
      [] node = "panel" -> <<"w2">>
      [] OTHER -> <<>>

\* for attr in widget.__dict__: if type(getattr(widget, attr)) in
\* SUPPORT_WIDGET_TYPES: yield attr, getattr(widget, attr)
OwnLinkable(node) == SelectSeq(Attrs(node), LAMBDA a : Supported(a.w))

RECURSIVE iterate_linkable_properties(_), ChildrenLoop(_)
\* for child in children: the attributes of the child, then all that
\* iterate_linkable_properties(child) yields
ChildrenLoop(cs) ==
    IF cs = <<>> THEN <<>>
    ELSE OwnLinkable(Head(cs)) \o iterate_linkable_properties(Head(cs))
             \o ChildrenLoop(Tail(cs))

\* the sequence the generator yields
iterate_linkable_properties(widget) ==
    OwnLinkable(widget) \o ChildrenLoop(Children(widget))

\* self._listeners[name] = self._listeners.get(name, []) + [listener]
listen(name, listener) ==
    [n \in DOMAIN listeners \cup {name} |->
        IF n = name THEN Append(ListenersOf(name), listener) ELSE listeners[n]]

\* the number of listeners registered so far
NumListeners ==
    LET RECURSIVE Sum(_)
        Sum(S) == IF S = {} THEN 0
                  ELSE LET n == CHOOSE x \in S : TRUE
                       IN Len(listeners[n]) + Sum(S \ {n})
    IN Sum(DOMAIN listeners)

----------------------------------------------------------------------------
(* Initial state: Model.__init__ *)

Call(method, w, name, v) == [method |-> method, w |-> w, name |-> name, v |-> v]

\* no call is running and none is on record: the event loop waits
AtEventLoop == op.method = "idle"

Init ==
    /\ widgets = <<>>
    /\ initial \in PropertyLists
    /\ properties = setup_properties(initial)
    /\ listeners = <<>>
    /\ show_warnings = TRUE
    /\ block_save = FALSE
    /\ prop = [w \in Widget |-> NoProp]
    /\ wtype \in {t \in [Widget -> {"QProgressBar", "QSlider"}] : t["w1"] = "QProgressBar"}
    /\ wvalue = [w \in {x \in Widget : Supported(x)} |-> InitialValue(w)]
    /\ op = Call("__init__", "", "", None)
    /\ result = "None"
    /\ trace = <<>>

----------------------------------------------------------------------------
(* Actions: one per public method, plus the user editing a widget *)

\* the last call has returned (or raised) into the event loop
EventLoop ==
    /\ ~AtEventLoop
    /\ op' = Call("idle", "", "", None)
    /\ result' = "None"
    /\ trace' = <<>>
    /\ UNCHANGED <<initial, widgets, properties, listeners, show_warnings, block_save,
                   prop, wtype, wvalue>>

\* the state a call leaves: t is the call state the method ended in
Returns(t) ==
    /\ properties' = t.props
    /\ wvalue' = t.wv
    /\ block_save' = t.bs
    /\ trace' = t.tr
    /\ result' = IF t.exc # "" THEN t.exc ELSE "None"

LinkProperty(w, name) ==
    LET r == link_property(w, name)
    IN /\ AtEventLoop
       /\ widgets' = r.widgets
       /\ prop' = r.prop
       /\ result' = r.ret
       /\ op' = Call("link_property", w, name, None)
       /\ trace' = <<>>
       /\ UNCHANGED <<initial, properties, listeners, show_warnings, block_save, wtype, wvalue>>

Listen(name) ==
    /\ AtEventLoop
    /\ NumListeners < MaxListeners
    /\ listeners' = listen(name, NumListeners + 1)
    /\ op' = Call("listen", "", name, None)
    /\ result' = "None"
    /\ trace' = <<>>
    /\ UNCHANGED <<initial, widgets, properties, show_warnings, block_save, prop, wtype, wvalue>>

\* the warning-verbosity toggle
SetShowWarnings(b) ==
    /\ AtEventLoop
    /\ show_warnings # b
    /\ show_warnings' = b
    /\ op' = Call("show_warnings", "", "", None)
    /\ result' = "None"
    /\ trace' = <<>>
    /\ UNCHANGED <<initial, widgets, properties, listeners, block_save, prop, wtype, wvalue>>

\* the user changes the value a supported widget shows; the widget emits its
\* save signal, which runs save_properties when link_property connected it
UserEdit(w, v) ==
    /\ AtEventLoop
    /\ Supported(w)
    /\ Accepts(w, v)
    /\ v # wvalue[w]
    /\ LET s == [CallState EXCEPT !.wv[w] = v]
       IN Returns(IF Tracked(w) THEN Emit(s, w) ELSE s)
    /\ op' = Call("user_edit", w, prop[w], v)
    /\ UNCHANGED <<initial, widgets, listeners, show_warnings, prop, wtype>>

UpdateProperty(name, v) ==
    /\ AtEventLoop
    /\ Returns(update_property(CallState, name, v))
    /\ op' = Call("update_property", "", name, v)
    /\ UNCHANGED <<initial, widgets, listeners, show_warnings, prop, wtype>>

UpdateWidget(w) ==
    /\ AtEventLoop
    /\ Returns(update_widget(CallState, w))
    /\ op' = Call("update_widget", w, prop[w], None)
    /\ UNCHANGED <<initial, widgets, listeners, show_warnings, prop, wtype>>

UpdateWidgetFromProperty(name) ==
    /\ AtEventLoop
    /\ Returns(update_widget_from_property(CallState, name))
    /\ op' = Call("update_widget_from_property", "", name, None)
    /\ UNCHANGED <<initial, widgets, listeners, show_warnings, prop, wtype>>

UpdateWidgetsFromProperties ==
    /\ AtEventLoop
    /\ Returns(update_widgets_from_properties(CallState))
    /\ op' = Call("update_widgets_from_properties", "", "", None)
    /\ UNCHANGED <<initial, widgets, listeners, show_warnings, prop, wtype>>

ResetProperties(update_widgets) ==
    /\ AtEventLoop
    /\ Returns(reset_properties(CallState, update_widgets))
    /\ op' = Call("reset_properties", "", "", IF update_widgets THEN 1 ELSE 0)
    /\ UNCHANGED <<initial, widgets, listeners, show_warnings, prop, wtype>>

\* the generator is run to its end; the trace holds what it yielded
IterateLinkableProperties(root) ==
    /\ AtEventLoop
    /\ LET ys == iterate_linkable_properties(root)
       IN trace' = [i \in 1..Len(ys) |-> Event("yield", ys[i].w, ys[i].attr, 0, None, FALSE)]
    /\ result' = "None"
    /\ op' = Call("iterate_linkable_properties", root, "", None)
    /\ UNCHANGED <<initial, widgets, properties, listeners, show_warnings,
                   block_save, prop, wtype, wvalue>>

Next ==
    \/ EventLoop
    \/ \E w \in Widget, name \in PropName : LinkProperty(w, name)
    \/ \E name \in PropName : Listen(name)
    \/ \E b \in BOOLEAN : SetShowWarnings(b)
    \/ \E w \in Widget, v \in WidgetValue : UserEdit(w, v)
    \/ \E name \in PropName, v \in InputValue : UpdateProperty(name, v)
    \/ \E w \in Widget : UpdateWidget(w)
    \/ \E name \in PropName : UpdateWidgetFromProperty(name)
    \/ UpdateWidgetsFromProperties
    \/ \E u \in BOOLEAN : ResetProperties(u)
    \/ \E root \in TreeNode : IterateLinkableProperties(root)

Spec == Init /\ [][Next]_vars

----------------------------------------------------------------------------
(* The same Model over a window with widgets of two supported types, whose   *)
(* setters take different values: w1 a QProgressBar, w2 a QLineEdit          *)

InitMixed ==
    /\ widgets = <<>>
    /\ initial \in PropertyLists
    /\ properties = setup_properties(initial)
    /\ listeners = <<>>
    /\ show_warnings = TRUE
    /\ block_save = FALSE
    /\ prop = [w \in Widget |-> NoProp]
    /\ wtype = [w \in Widget |-> IF w = "w1" THEN "QProgressBar" ELSE "QLineEdit"]
    /\ wvalue = [w \in Widget |-> InitialValue(w)]
    /\ op = Call("__init__", "", "", None)
    /\ result = "None"
    /\ trace = <<>>

SpecMixed == InitMixed /\ [][Next]_vars

----------------------------------------------------------------------------
(* Model.__init__ alone, over every property list: line 151 is done, the     *)
(* call of setup_properties at line 152 is the one step                      *)

InitSetup ==
    /\ widgets = <<>>
    /\ initial \in SetupLists
    /\ properties = <<>>
    /\ listeners = <<>>
    /\ show_warnings = TRUE
    /\ block_save = FALSE
    /\ prop = [w \in Widget |-> NoProp]
    /\ wtype = [w \in Widget |-> "QProgressBar"]
    /\ wvalue = [w \in Widget |-> 0]
    /\ op = Call("__new__", "", "", None)
    /\ result = "None"
    /\ trace = <<>>

SetupProperties ==
    /\ op.method = "__new__"
    /\ properties' = setup_properties(initial)
    /\ op' = Call("__init__", "", "", None)
    /\ UNCHANGED <<initial, widgets, listeners, show_warnings, block_save,
                   prop, wtype, wvalue, result, trace>>

NextSetup == SetupProperties

SpecSetup == InitSetup /\ [][NextSetup]_vars

----------------------------------------------------------------------------
(* Vocabulary of the properties *)

\* the calls that run an update batch
BatchMethods ==
    {"update_property", "update_widget_from_property",
     "update_widgets_from_properties", "reset_properties"}

\* the widgets linked to name, as a set
LinkedTo(name) == Range(widgets_linked_to_property(name))

\* the listener calls of the last call, in order, as <<listener, argument>>
ListenerCalls ==
    LET calls == SelectSeq(trace, LAMBDA e : e.ev = "listener")
    IN [i \in 1..Len(calls) |-> <<calls[i].l, calls[i].v>>]

\* what Notify(name, v) calls, in the same form
Expected(name, v) ==
    LET ls == ListenersOf(name)
    IN [i \in 1..Len(ls) |-> <<ls[i], v>>]

----------------------------------------------------------------------------
(* C1: _block_save is released after every call *)

\* C1: between calls _block_save is false, whatever calls were made before
\* and whether or not a widget setter failed in them.
C1_BlockSaveReleased == block_save = FALSE

----------------------------------------------------------------------------
(* C2: feedback suppression inside an update batch *)

\* C2: in an update batch, every save_properties call that a setter's
\* changed-signal triggers changes no property field and calls no listener,
\* and no listener is called before the last widget of the batch is written.
C2_FeedbackSuppressed ==
    op.method \in BatchMethods =>
        \A i \in 1..Len(trace) :
            /\ trace[i].ev = "save" => trace[i].noop
            /\ trace[i].ev = "listener" =>
                   \A j \in i..Len(trace) : trace[j].ev = "listener"

\* a batch in which a setter emitted the changed-signal of a widget whose
\* property has a listener, before another widget of the batch was written
C2_Witness ==
    /\ op.method \in BatchMethods
    /\ \E i \in 1..Len(trace) :
          /\ trace[i].ev = "save"
          /\ ListenersOf(trace[i].name) # <<>>
          /\ \E j \in (i + 1)..Len(trace) : trace[j].ev = "setter"

----------------------------------------------------------------------------
(* C3: link_property on an unsupported widget *)

\* C3: a widget of a type the table lacks is never tagged or tracked, and
\* link_property on it returns False, whatever _show_warnings is.
C3_UnsupportedNeverLinked ==
    /\ \A w \in Widget : ~Supported(w) => ~Tracked(w) /\ prop[w] = NoProp
    /\ op.method = "link_property" /\ ~Supported(op.w) => result = "False"

----------------------------------------------------------------------------
(* C4: a user edit is saved into the model *)

\* C4: after a user edit of a linked, supported widget has run save_properties
\* with _block_save false (and the save raised nothing), the widget's property
\* holds the widget's value.
C4_EditSaved ==
    (/\ op.method = "user_edit"
     /\ Tracked(op.w)
     /\ ~block_save
     /\ result = "None"
     /\ prop[op.w] \in DOMAIN properties)
        => properties[prop[op.w]].value = wvalue[op.w]

----------------------------------------------------------------------------
(* C5: update_property round trip *)

\* every widget linked to name is of a supported type and its setter takes v
AllAccept(name, v) == \A w \in LinkedTo(name) : Supported(w) /\ Accepts(w, v)

\* C5: after update_property(p, v) on a registered p whose linked widgets are
\* all supported and accept v, the call has returned, properties[p].value is v
\* and the getter of every widget linked to p yields v.
C5_RoundTrip ==
    (/\ op.method = "update_property"
     /\ op.name \in DOMAIN properties
     /\ AllAccept(op.name, op.v))
        => /\ result = "None"
           /\ properties[op.name].value = op.v
           /\ \A w \in LinkedTo(op.name) : wvalue[w] = op.v

\* update_property has changed the value of two widgets linked to one property
C5_Witness ==
    /\ op.method = "update_property"
    /\ op.name \in DOMAIN properties
    /\ AllAccept(op.name, op.v)
    /\ Cardinality(LinkedTo(op.name)) = 2
    /\ Cardinality({i \in 1..Len(trace) : trace[i].ev = "save"}) = 2

----------------------------------------------------------------------------
(* C6: listener order in update_property *)

\* C6 as stated: update_property(p, v) on a registered p calls the listeners
\* of p in registration order, each exactly once, each with v.
C6_ListenersInOrder ==
    (/\ op.method = "update_property"
     /\ op.name \in DOMAIN properties)
        => ListenerCalls = Expected(op.name, op.v)

\* C6 as amended: the same, when the setter of every supported widget linked
\* to p takes v; when one rejects v, the call raises and calls no listener.
C6_ListenersInOrderWhenAccepted ==
    (/\ op.method = "update_property"
     /\ op.name \in DOMAIN properties)
        => IF \A w \in LinkedTo(op.name) : Supported(w) => Accepts(w, op.v)
           THEN result = "None" /\ ListenerCalls = Expected(op.name, op.v)
           ELSE result = "TypeError" /\ ListenerCalls = <<>>

\* update_property on a property with listeners L1 then L2, while a linked
\* widget emitted its changed-signal
C6_Witness ==
    /\ op.method = "update_property"
    /\ op.name \in DOMAIN properties
    /\ ListenersOf(op.name) = <<1, 2>>
    /\ ListenerCalls = <<<<1, op.v>>, <<2, op.v>>>>
    /\ \E i \in 1..Len(trace) : trace[i].ev = "save"

----------------------------------------------------------------------------
(* C7: reset_properties(update_widgets=True) *)

Refreshable(w) ==
    \/ ~Supported(w)
    \/ /\ prop[w] \in DOMAIN properties
       /\ Accepts(w, properties[prop[w]].default)

----------------------------------------------------------------------------
(* C8: a tracked widget whose tag is no registered property *)

\* C8: no update or save raises because a tracked widget's "prop" tag is not
\* a key of the property registry: the widget is skipped.
C8_UnregisteredTagSkipped ==
    (\/ op.method \in {"update_widgets_from_properties", "user_edit"}
     \/ op.method = "update_widget" /\ Tracked(op.w))
        => result # "KeyError"

----------------------------------------------------------------------------
(* C9: a widget is tracked at most once *)

NoDuplicates ==
    \A i, j \in 1..Len(widgets) : widgets[i] = widgets[j] => i = j

\* C9: the registry never holds a widget twice, and link_property on a tracked
\* widget returns False and leaves the size of the registry, for any name.
C9_LinkedOnce ==
    /\ []NoDuplicates
    /\ [][\A w \in Widget, name \in PropName :
            (LinkProperty(w, name) /\ Tracked(w))
                => result' = "False" /\ Len(widgets') = Len(widgets)]_vars

\* link_property was refused for a tracked widget, under another name
C9_Witness ==
    /\ op.method = "link_property"
    /\ Tracked(op.w)
    /\ result = "False"
    /\ prop[op.w] # op.name

----------------------------------------------------------------------------
(* C10: a duplicate link changes nothing *)

\* C10: link_property on a tracked widget leaves the tags, the registry, the
\* properties and the listeners as they were.
C10_DuplicateLinkNoEffect ==
    [][\A w \in Widget, name \in PropName :
          (LinkProperty(w, name) /\ Tracked(w))
              => UNCHANGED <<prop, widgets, properties, listeners, wvalue, block_save>>]_vars

\* a duplicate link under another name, with two widgets tracked, a listener
\* registered, and the first tag still in place
C10_Witness ==
    /\ op.method = "link_property"
    /\ result = "False"
    /\ Len(widgets) = 2
    /\ op.w = widgets[1]
    /\ prop[op.w] \in PropName \ {op.name}
    /\ ListenersOf(op.name) # <<>>

----------------------------------------------------------------------------
(* C11: tagging and tracking go together *)

\* C11: a widget is in the registry exactly when it carries a "prop" tag, and
\* link_property returns True exactly when it tagged and appended the widget;
\* when it returns False it did neither.
C11_TaggedIffTracked ==
    /\ [](\A w \in Widget : Tracked(w) <=> prop[w] # NoProp)
    /\ [][\A w \in Widget, name \in PropName :
            LinkProperty(w, name) =>
                /\ result' = "True" <=>
                       (w \notin Range(widgets) /\ w \in Range(widgets') /\ prop'[w] = name)
                /\ result' = "False" => UNCHANGED <<widgets, prop>>]_vars

\* one link was accepted and a later one, of a widget of an unsupported type,
\* was refused: the first widget is tagged and tracked, the second is neither
C11_Witness ==
    /\ op.method = "link_property"
    /\ result = "False"
    /\ ~Supported(op.w)
    /\ ~Tracked(op.w) /\ prop[op.w] = NoProp
    /\ \E w \in Widget : Tracked(w) /\ prop[w] # NoProp

----------------------------------------------------------------------------
(* C12: a successful link *)

\* C12: link_property(w, name) on a supported widget that is not tracked
\* returns True and appends w to the registry; w is then among the widgets
\* linked to name and among those of no other name.
C12_LinkAppends ==
    [][\A w \in Widget, name \in PropName :
          (LinkProperty(w, name) /\ Supported(w) /\ ~Tracked(w)) =>
              /\ result' = "True"
              /\ widgets' = Append(widgets, w)
              /\ w \in LinkedTo(name)'
              /\ \A other \in PropName \ {name} : w \notin LinkedTo(other)']_vars

\* a second supported widget was linked, behind the first
C12_Witness ==
    /\ op.method = "link_property"
    /\ result = "True"
    /\ Supported(op.w)
    /\ Len(widgets) = 2
    /\ widgets[2] = op.w
    /\ op.w \in LinkedTo(op.name)

----------------------------------------------------------------------------
(* C13: update_property of a name that is not registered *)

\* C13: update_property(name, value) with a name that is not in properties
\* changes no property, no widget value and not block_save, calls no setter
\* and no listener, and returns normally.
C13_UnregisteredUpdateIsNoOp ==
    [][\A name \in PropName, v \in PropValue :
          (UpdateProperty(name, v) /\ name \notin DOMAIN properties) =>
              /\ UNCHANGED <<properties, wvalue, block_save, widgets, prop, listeners>>
              /\ trace' = <<>>
              /\ result' = "None"]_vars

\* the name is not registered although a widget is linked to it and a
\* listener waits for it
C13_Witness ==
    /\ op.method = "update_property"
    /\ op.name \notin DOMAIN properties
    /\ ListenersOf(op.name) # <<>>
    /\ \E w \in LinkedTo(op.name) : Supported(w) /\ wvalue[w] # op.v
    /\ op.v \in WidgetValue

----------------------------------------------------------------------------
(* C14: setup_properties *)

\* the index of the last record of the list that carries the name
LastOf(name) ==
    CHOOSE i \in 1..Len(initial) :
        /\ initial[i].name = name
        /\ \A j \in (i + 1)..Len(initial) : initial[j].name # name

\* C14: after setup_properties the mapping has exactly the names of the list;
\* under each name it holds the last record of that name, with the value it
\* came with, and with its explicit default, or its value where the record
\* came without a default.
C14_DefaultsFilled ==
    op.method = "__init__" =>
        /\ DOMAIN properties = {initial[i].name : i \in 1..Len(initial)}
        /\ \A n \in DOMAIN properties :
              LET r == initial[LastOf(n)]
              IN /\ properties[n].value = r.value
                 /\ properties[n].default =
                        IF r.default = None THEN r.value ELSE r.default

\* two records of one name: the first with an explicit default, the last
\* without, and with another value
C14_Witness ==
    /\ op.method = "__init__"
    /\ Len(initial) = 2
    /\ initial[1].name = initial[2].name
    /\ initial[1].default # None
    /\ initial[2].default = None
    /\ initial[2].value \notin {None, initial[1].value, initial[1].default}
    /\ properties[initial[2].name].default = initial[2].value

----------------------------------------------------------------------------
(* C15: defaults *)

----------------------------------------------------------------------------
(* C16: refresh before notification *)

\* C16: in update_property(p, v) of a registered p, before any listener of p
\* is called every widget linked to p has had its setter called with v, and
\* _block_save has been put back to False.
C16_RefreshBeforeNotify ==
    (op.method = "update_property" /\ op.name \in DOMAIN properties) =>
        \A i \in DOMAIN trace :
            (trace[i].ev = "listener" /\ trace[i].name = op.name) =>
                /\ \A w \in LinkedTo(op.name) :
                      \E j \in 1..(i - 1) :
                          /\ trace[j].ev = "setter"
                          /\ trace[j].w = w
                          /\ trace[j].v = op.v
                /\ \E j \in 1..(i - 1) : trace[j].ev = "unblock"

----------------------------------------------------------------------------
(* C17: the order of a save *)

\* the property writes and listener calls of the last call, in order
SaveSteps ==
    LET steps == SelectSeq(trace, LAMBDA e : e.ev \in {"write", "listener"})
    IN [i \in 1..Len(steps) |->
           <<steps[i].ev, steps[i].w, steps[i].name, steps[i].l, steps[i].v>>]

RECURSIVE SaveOwed(_)
\* what a save owes: widget by widget in the order of ws, for each supported
\* widget the write of its value onto its property and then a call of every
\* listener of that property, in registration order, with that value
SaveOwed(ws) ==
    IF ws = <<>> THEN <<>>
    ELSE LET w == Head(ws)
             ls == ListenersOf(prop[w])
         IN (IF Supported(w)
             THEN <<<<"write", w, prop[w], 0, wvalue[w]>>>>
                  \o [i \in 1..Len(ls) |-> <<"listener", "", prop[w], ls[i], wvalue[w]>>]
             ELSE <<>>) \o SaveOwed(Tail(ws))

\* C17: a save_properties run that is not blocked goes through the registry in
\* insertion order; for each supported widget it writes the value of the
\* widget onto its property and then calls every listener of that property
\* once with that value, in registration order; it does nothing else and
\* returns normally.
C17_SaveInRegistryOrder ==
    (op.method = "user_edit" /\ Tracked(op.w) /\ ~block_save) =>
        /\ result = "None"
        /\ SaveSteps = SaveOwed(widgets)

----------------------------------------------------------------------------
(* C18: listeners of a property that did not change *)

\* C18: when a user edit of a widget starts a save that is not blocked, no
\* listener is called of another property whose value is the same after the
\* save as before it (the widgets linked to it were not edited).
C18_OnlyChangedNotified ==
    [][\A w \in Widget, v \in WidgetValue :
          (UserEdit(w, v) /\ Tracked(w) /\ ~block_save) =>
              \A q \in DOMAIN properties \ {prop[w]} :
                  properties'[q] = properties[q] =>
                      \A i \in DOMAIN trace' :
                          ~(trace'[i].ev = "listener" /\ trace'[i].name = q)]_vars

----------------------------------------------------------------------------
(* C19: discovery *)

RECURSIVE Preorder(_), PreorderAll(_)
\* each node once: its linkable attributes, then its children's subtrees
Preorder(node) == OwnLinkable(node) \o PreorderAll(Children(node))

PreorderAll(cs) ==
    IF cs = <<>> THEN <<>> ELSE Preorder(Head(cs)) \o PreorderAll(Tail(cs))

\* C19: iterate_linkable_properties(root) yields the attributes whose type is
\* in the table, root first and then child by child depth-first, each
\* attribute of each node once, and leaves the registry and the tags alone.
C19_DiscoveryYieldsEachOnce ==
    [][\A root \in TreeNode :
          IterateLinkableProperties(root) =>
              /\ UNCHANGED <<widgets, prop>>
              /\ LET ys == Preorder(root)
                 IN trace' = [i \in 1..Len(ys) |->
                                 Event("yield", ys[i].w, ys[i].attr, 0, None, FALSE)]]_vars

----------------------------------------------------------------------------
(* C20: a setter rejects the value *)

\* C20: when the setter of a linked widget rejects v in update_property(p, v),
\* the call raises TypeError and calls no listener; properties[p].value is v
\* all the same; and the supported widgets linked to p that stand before the
\* rejecting one in the registry show v.
C20_RejectionPropagates ==
    (op.method = "update_property" /\ \E i \in DOMAIN trace : trace[i].ev = "rejected") =>
        /\ result = "TypeError"
        /\ \A i \in DOMAIN trace : trace[i].ev # "listener"
        /\ properties[op.name].value = op.v
        /\ \A i \in DOMAIN trace : trace[i].ev = "rejected" =>
              \A k, j \in DOMAIN widgets :
                  (widgets[k] = trace[i].w /\ j < k
                   /\ prop[widgets[j]] = op.name /\ Supported(widgets[j])) =>
                      wvalue[widgets[j]] = op.v

\* the first widget linked to p took the value and changed, the second one
\* rejected it, and a listener of p was waiting
C20_Witness ==
    /\ op.method = "update_property"
    /\ result = "TypeError"
    /\ ListenersOf(op.name) # <<>>
    /\ Len(trace) = 2
    /\ trace[1].ev = "setter"
    /\ trace[2].ev = "rejected"
    /\ trace[1].w # trace[2].w
    /\ wvalue[trace[1].w] = op.v
    /\ op.v # InitialValue(trace[1].w)

====
